---- MODULE Spec2Model ----
(***************************************************************************)
(* A model of the bulk-SMS sender of app.py: the cost estimator, the       *)
(* wallet (ledger), the job/recipient store kept in three JSON files, the  *)
(* background worker process_job, the delivery-status callback, the admin  *)
(* top-up and the resume scan run at process start.                        *)
(*                                                                         *)
(* Files on disk (wallet, jobs, recips) survive a process exit; threads,   *)
(* running_jobs and fs_lock do not.  A job's id is its index in jobs, a    *)
(* recipient's id its index in recips (the code draws uuid4 values; only   *)
(* their distinctness is used).  A recipient's message text is kept as its *)
(* segment count only: the text is read by the provider call alone.        *)
(***************************************************************************)
EXTENDS Integers, Sequences, FiniteSets, TLC

\* ---------------------------------------------------------------- bounds
MaxJobs == 1
MaxRows == 2
MaxCrashes == 2
MaxTopups == 1
MaxCallbacks == 1
MaxExtraLaunches == 1
MaxEstRows == 3
MaxTextLen == 310
MaxPairJobs == 2
MaxStorageErrors == 1
MaxLoopRecips == 2

\* ------------------------------------------------------ program constants
PRICE_PER_SMS_MILLS == 23
MAX_IMMEDIATE_RETRIES == 3
InitialBalance == 100000

\* range(MAX_IMMEDIATE_RETRIES + 3): the provider calls made for one recipient
RetryBudget == MAX_IMMEDIATE_RETRIES + 3

\* a key that a record does not hold yet (dict.get returns None)
None == -1

Max(a, b) == IF a >= b THEN a ELSE b

\* ------------------------------------------------------------ message text
\* A text is a sequence of code points.
AsciiText(n) == [i \in 1..n |-> 97]
UnicodeText(n) == [i \in 1..n |-> IF i = 1 THEN 233 ELSE 97]

is_gsm7(text) == \A i \in 1..Len(text) : text[i] <= 127

segments_for_text_floor_plus_one(text) ==
    LET l == Len(text)
    IN  IF is_gsm7(text)
        THEN IF l <= 160 THEN 1 ELSE l \div 153 + 1
        ELSE IF l <= 70 THEN 1 ELSE l \div 67 + 1

segments_for_text(text) ==
    LET l == Len(text)
    IN  IF is_gsm7(text)
        THEN IF l <= 160 THEN 1 ELSE (l + 152) \div 153
        ELSE IF l <= 70 THEN 1 ELSE (l + 66) \div 67

\* ----------------------------------------------------------- phone numbers
Digits == {"0", "1", "2", "3", "4", "5", "6", "7", "8", "9"}

RECURSIVE KeepDigitsAndPlus(_)
KeepDigitsAndPlus(raw) ==
    IF Len(raw) = 0 THEN ""
    ELSE LET ch == SubSeq(raw, 1, 1)
             rest == KeepDigitsAndPlus(SubSeq(raw, 2, Len(raw)))
         IN  IF ch \in Digits \cup {"+"} THEN ch \o rest ELSE rest

StartsWith(s, c) == Len(s) >= 1 /\ SubSeq(s, 1, 1) = c

\* The phonenumbers library, as the table of the numbers used here: the
\* region of a valid number in international form, "" for anything else.
PhoneRegion(cleaned) ==
    CASE cleaned = "+14165550001" -> "CA"
      [] cleaned = "+16045550002" -> "CA"
      [] cleaned = "+12125550003" -> "US"
      [] OTHER -> ""

ALLOWED_REGION == "CA"

\* <<e164, error>>: one of the two is "".
normalize_phone_and_check_canada(raw) ==
    IF raw = "" THEN <<"", "empty phone">>
    ELSE LET kept == KeepDigitsAndPlus(raw)
             cleaned == IF StartsWith(kept, "+") THEN kept
                        ELSE IF Len(kept) = 10 THEN "+1" \o kept
                        ELSE IF Len(kept) = 11 /\ StartsWith(kept, "1") THEN "+" \o kept
                        ELSE kept
         IN  IF ~StartsWith(cleaned, "+") THEN <<"", "could not parse phone number">>
             ELSE IF PhoneRegion(cleaned) = "" THEN <<"", "invalid phone number">>
             ELSE IF PhoneRegion(cleaned) /= ALLOWED_REGION
                  THEN <<"", "not a Canadian number (region=" \o PhoneRegion(cleaned) \o ")">>
             ELSE <<cleaned, "">>

\* --------------------------------------------------------------- estimator
\* One row of the CSV: the phone column and the message column ("" when the
\* row has none and the template is used).
EmptyAcc == [parsed |-> <<>>, rejected |-> <<>>, seen_phones |-> {}, total_segments |-> 0]

ParseRow_no_dedupe(acc, r, template) ==
    LET res == normalize_phone_and_check_canada(r.phone)
        message == IF Len(r.message) > 0 THEN r.message ELSE template
        seg == segments_for_text(message)
    IN  IF r.phone = ""
        THEN [acc EXCEPT !.rejected = Append(@, [row |-> r, reason |-> "phone missing"])]
        ELSE IF res[2] /= ""
        THEN [acc EXCEPT !.rejected = Append(@, [row |-> r, reason |-> res[2]])]
        ELSE [acc EXCEPT !.seen_phones = @ \cup {res[1]},
                         !.total_segments = @ + seg,
                         !.parsed = Append(@, [phone |-> res[1], segments |-> seg,
                                               original |-> r])]

\* The body of `for r in rows`: reject the row, skip it as a duplicate, or
\* price and accept it.
ParseRow(acc, r, template) ==
    LET res == normalize_phone_and_check_canada(r.phone)
        message == IF Len(r.message) > 0 THEN r.message ELSE template
        seg == segments_for_text(message)
    IN  IF r.phone = ""
        THEN [acc EXCEPT !.rejected = Append(@, [row |-> r, reason |-> "phone missing"])]
        ELSE IF res[2] /= ""
        THEN [acc EXCEPT !.rejected = Append(@, [row |-> r, reason |-> res[2]])]
        ELSE IF res[1] \in acc.seen_phones
        THEN acc
        ELSE [acc EXCEPT !.seen_phones = @ \cup {res[1]},
                         !.total_segments = @ + seg,
                         !.parsed = Append(@, [phone |-> res[1], segments |-> seg,
                                               original |-> r])]

RECURSIVE ParseRowsFrom(_, _, _)
ParseRowsFrom(acc, rows, template) ==
    IF rows = <<>> THEN acc
    ELSE ParseRowsFrom(ParseRow(acc, Head(rows), template), Tail(rows), template)

ParseRows(rows, template) == ParseRowsFrom(EmptyAcc, rows, template)

\* ------------------------------------------------------------------ inputs
Phone1 == "+14165550001"
Phone2 == "+16045550002"
UnknownPhone == "+19995550000"
UnknownSid == 0

\* The rows a batch is drawn from: two spellings of one Canadian number, a
\* second Canadian number (its message left to the template), a US number, a
\* row with no phone.
Rows ==
    { [phone |-> "4165550001", message |-> AsciiText(2)],
      [phone |-> "+1 (416) 555-0001", message |-> UnicodeText(3)],
      [phone |-> "6045550002", message |-> <<>>],
      [phone |-> "2125550003", message |-> AsciiText(2)],
      [phone |-> "", message |-> AsciiText(2)] }

Batches == UNION { [1..n -> Rows] : n \in 0..MaxRows }

\* The rows of the estimator check: the same, with a longer message on the
\* second spelling, a number that does not parse and one that is not valid.
EstRows ==
    { [phone |-> "4165550001", message |-> AsciiText(2)],
      [phone |-> "+1 (416) 555-0001", message |-> UnicodeText(71)],
      [phone |-> "14165550001", message |-> <<>>],
      [phone |-> "6045550002", message |-> <<>>],
      [phone |-> "2125550003", message |-> AsciiText(2)],
      [phone |-> "12345", message |-> AsciiText(2)],
      [phone |-> "+1999", message |-> AsciiText(2)],
      [phone |-> "", message |-> AsciiText(2)] }

EstBatches == UNION { [1..n -> EstRows] : n \in 0..MaxEstRows }
Templates == { AsciiText(161) }

\* The bodies of the segment check: all ASCII, a non-ASCII first character,
\* and a last character on either side of the 7-bit limit (127, 128).
EndsWith(n, code_point) == [i \in 1..n |-> IF i = n THEN code_point ELSE 97]

SegTexts ==
    { AsciiText(n) : n \in 0..MaxTextLen }
        \cup { UnicodeText(n) : n \in 1..MaxTextLen }
        \cup { EndsWith(n, cp) : n \in 1..MaxTextLen, cp \in {127, 128} }

TopupAmounts == { -99977, 23 }
CallbackStatuses == { "delivered", "undelivered", "failed", "sent", "queued" }

\* ------------------------------------------------------------------- state
VARIABLES
    wallet,        \* wallet.json: balance_mills
    jobs,          \* jobs.json: the list of job records
    recips,        \* recipients.json: the list of recipient records
    running_jobs,  \* the in-memory set of job ids with a worker
    threads,       \* threads[j][k]: the k-th process_job thread of job j
    locked,        \* fs_lock is held
    est,           \* the api_estimate request inside its fs_lock block
    resp,          \* the last HTTP response sent
    crashes,       \* process exits so far
    topups,        \* accepted top-ups so far
    callbacks,     \* delivery-status events received so far
    launches,      \* direct calls of start_background_worker_for so far
    ledger_hist,   \* per job: what the ledger did for it (history)
    send_hist,     \* per recipient: what the worker did for it (history)
    est_rows,      \* the batch under test (estimator check)
    est_out,       \* what the estimator returned for est_rows
    seg_text,      \* the message body under test (segment check)
    seg_out,       \* what segments_for_text returned for seg_text
    ledger_sum,    \* the ledger operations applied so far, by their amounts (history)
    topup,         \* the api_topup request inside its fs_lock block
    loop           \* worker.py: worker_loop's position, batch and provider calls

vars == <<wallet, jobs, recips, running_jobs, threads, locked, est, resp,
          crashes, topups, callbacks, launches, ledger_hist, send_hist, est_rows,
          est_out, seg_text, seg_out, ledger_sum, topup, loop>>

Slots == 1..(1 + MaxExtraLaunches)
JobIds == 1..Max(MaxJobs, MaxPairJobs)

NoThread == [pc |-> "none", sent_segments |-> 0, failed_segments |-> 0,
             rec_id |-> 0, segs |-> 0, success |-> FALSE]
NewThread_never_started == NoThread

\* threading.Thread(target=process_job, args=(job_id,)).start()
NewThread == [NoThread EXCEPT !.pc = "check"]
NoAnswer == [answered |-> FALSE, rows |-> <<>>, rejected |-> <<>>]
NoEstimate == [pc |-> "idle", parsed |-> <<>>, total_segments |-> 0, total_cost_mills |-> 0]
NoSegments == [answered |-> FALSE, segments |-> 0, one_longer |-> 0]
NoTopup == [pc |-> "idle", balance_mills |-> 0, amount_mills |-> 0]
NoLedgerOps == [balance_mills |-> InitialBalance, reserved_mills |-> 0]

\* worker.py before worker_loop has read anything: the loop's position, the
\* SEND_CONCURRENCY it runs with, the batch left to process, the recipient in
\* hand, and the calls of send_message made so far for each recipient.
NoLoop == [pc |-> "scan", concurrency |-> 0, batch |-> <<>>, r |-> 0, calls |-> <<>>,
           errors |-> 0]

Init ==
    /\ wallet = InitialBalance
    /\ jobs = <<>>
    /\ recips = <<>>
    /\ running_jobs = {}
    /\ threads = [j \in JobIds |-> [k \in Slots |-> NoThread]]
    /\ locked = FALSE
    /\ est = NoEstimate
    /\ resp = [op |-> "none", code |-> 0]
    /\ crashes = 0
    /\ topups = 0
    /\ callbacks = 0
    /\ launches = 0
    /\ ledger_hist = <<>>
    /\ send_hist = <<>>
    /\ est_rows = <<>>
    /\ est_out = NoAnswer
    /\ seg_text = <<>>
    /\ seg_out = NoSegments
    /\ ledger_sum = NoLedgerOps
    /\ topup = NoTopup
    /\ loop = NoLoop

\* ------------------------------------------------------------ store helpers
fs_lock_ignored == TRUE

\* `with fs_lock:` can be entered
fs_lock_free == ~locked

RecipIds == DOMAIN recips

FirstOf_last(ids) ==
    IF ids = {} THEN 0
    ELSE CHOOSE i \in ids : \A k \in ids : i >= k

\* next((r for r in recips_all if ...), None) over the records whose indices
\* are in ids: the first index, 0 for None
FirstOf(ids) ==
    IF ids = {} THEN 0
    ELSE CHOOSE i \in ids : \A k \in ids : i <= k

\* One more ledger write seen by every job (kept to 2: none, one, several).
CountLedgerOp(h) == [i \in DOMAIN h |-> [h[i] EXCEPT !.ops = IF @ < 2 THEN @ + 1 ELSE 2]]

\* ------------------------------------------------------------ api_estimate
InsufficientBalance_one_segment_late(balance, cost) == balance < cost - PRICE_PER_SMS_MILLS

\* wallet.get('balance_mills', 0) < total_cost_mills
InsufficientBalance(balance, cost) == balance < cost

NewJob(e) ==
    [totalRecipients |-> Len(e.parsed), totalSegments |-> e.total_segments,
     totalCost_mills |-> e.total_cost_mills, status |-> "queued",
     sent_segments |-> None, failed_segments |-> None,
     actual_cost_mills |-> None, refund_mills |-> None]

NewRecipient(job_id, p) ==
    [jobId |-> job_id, phone |-> p.phone, segments |-> p.segments,
     status |-> "queued", attempts |-> 0, twilioSid |-> None, twilioStatus |-> "none"]

\* What the handler has in hand after pricing the rows: the accepted list
\* (address and segment count of each entry), total_segments, total_cost_mills.
Priced(rows, template) ==
    LET acc == ParseRows(rows, template)
    IN  [parsed |-> [i \in DOMAIN acc.parsed |->
                      [phone |-> acc.parsed[i].phone, segments |-> acc.parsed[i].segments]],
         total_segments |-> acc.total_segments,
         total_cost_mills |-> acc.total_segments * PRICE_PER_SMS_MILLS]

\* The priced forms of the batches of one row with either Canadian number.
PairBatches ==
    { Priced(<<r>>, template) :
        r \in { x \in Rows : x.phone \in {"4165550001", "6045550002"} },
        template \in Templates }

\* The priced forms of every batch a request may carry.
PricedBatches == { Priced(rows, template) : rows \in Batches, template \in Templates }

\* The request, from the priced rows up to the wallet write: answer an
\* estimate, or refuse for lack of funds, or debit the wallet and go on
\* inside fs_lock.
api_estimate_upto(max_jobs, priced, do_send) ==
    /\ est.pc = "idle"
    /\ fs_lock_free
    /\ IF ~do_send
       THEN /\ resp' = [op |-> "estimate", code |-> 200]
            /\ UNCHANGED <<wallet, locked, est, ledger_hist, ledger_sum>>
       ELSE IF InsufficientBalance(wallet, priced.total_cost_mills)
       THEN /\ resp' = [op |-> "estimate", code |-> 402]
            /\ UNCHANGED <<wallet, locked, est, ledger_hist, ledger_sum>>
       ELSE /\ Len(jobs) < max_jobs
            /\ wallet' = wallet - priced.total_cost_mills
            /\ locked' = TRUE
            /\ est' = [pc |-> "jobs", parsed |-> priced.parsed,
                       total_segments |-> priced.total_segments,
                       total_cost_mills |-> priced.total_cost_mills]
            /\ ledger_hist' = CountLedgerOp(ledger_hist)
            /\ ledger_sum' = [ledger_sum EXCEPT
                                !.balance_mills = @ - priced.total_cost_mills,
                                !.reserved_mills = @ + priced.total_cost_mills]
            /\ UNCHANGED resp
    /\ UNCHANGED <<jobs, recips, running_jobs, threads, crashes, topups,
                   callbacks, launches, send_hist, est_rows, est_out,
                   seg_text, seg_out, topup, loop>>

\* The request in a run that accepts MaxJobs jobs.
api_estimate(priced, do_send) == api_estimate_upto(MaxJobs, priced, do_send)

\* jobs.append(job); write_json_atomic(JOBS_PATH, jobs)
api_estimate_jobs ==
    /\ est.pc = "jobs"
    /\ jobs' = Append(jobs, NewJob(est))
    /\ est' = [est EXCEPT !.pc = "recips"]
    /\ ledger_hist' = Append(ledger_hist,
                             [before |-> wallet + est.total_cost_mills, ops |-> 0,
                              refunds |-> 0, completions |-> 0])
    /\ UNCHANGED <<wallet, recips, running_jobs, threads, locked, resp, crashes,
                   topups, callbacks, launches, send_hist, est_rows, est_out,
                   seg_text, seg_out, ledger_sum, topup, loop>>

\* The recipients are written, fs_lock is released, the worker thread is
\* started and the request answered.
api_estimate_recips ==
    LET job_id == Len(jobs)
    IN  /\ est.pc = "recips"
        /\ recips' = recips \o [i \in DOMAIN est.parsed |-> NewRecipient(job_id, est.parsed[i])]
        /\ send_hist' = send_hist \o [i \in DOMAIN est.parsed |->
                                       [picks |-> 0, ok |-> 0, exhausted |-> FALSE]]
        /\ locked' = FALSE
        /\ threads' = [threads EXCEPT ![job_id][1] = NewThread]
        /\ resp' = [op |-> "estimate", code |-> 200]
        /\ est' = NoEstimate
        /\ UNCHANGED <<wallet, jobs, running_jobs, crashes, topups, callbacks, launches,
                       ledger_hist, est_rows, est_out,
                   seg_text, seg_out, ledger_sum, topup, loop>>

\* ------------------------------------------------------------- process_job
\* What the provider returns as msg.sid for the message of recipient rec_id.
ProviderSid(rec_id) == rec_id

\* if job_id in running_jobs: return
AlreadyRunning(j) == j \in running_jobs

process_job_check(j, k) ==
    /\ threads[j][k].pc = "check"
    /\ threads' = [threads EXCEPT ![j][k] =
                     IF AlreadyRunning(j) THEN NoThread ELSE [@ EXCEPT !.pc = "add"]]
    /\ UNCHANGED <<wallet, jobs, recips, running_jobs, locked, est, resp, crashes,
                   topups, callbacks, launches, ledger_hist, send_hist, est_rows, est_out,
                   seg_text, seg_out, ledger_sum, topup, loop>>

\* running_jobs.add(job_id); sent_segments = 0; failed_segments = 0
process_job_add(j, k) ==
    /\ threads[j][k].pc = "add"
    /\ running_jobs' = running_jobs \cup {j}
    /\ threads' = [threads EXCEPT ![j][k].pc = "select"]
    /\ UNCHANGED <<wallet, jobs, recips, locked, est, resp, crashes, topups,
                   callbacks, launches, ledger_hist, send_hist, est_rows, est_out,
                   seg_text, seg_out, ledger_sum, topup, loop>>

Eligible_or_sending(j, i) ==
    recips[i].jobId = j /\ recips[i].status \in {"queued", "sending"}

\* r.get('jobId') == job_id and r.get('status') == 'queued'
Eligible(j, i) == recips[i].jobId = j /\ recips[i].status = "queued"

NextRec(j) == FirstOf({ i \in RecipIds : Eligible(j, i) })

\* The first fs_lock block of the drain loop: pick the next recipient and
\* mark it sending, or leave the loop.
process_job_select(j, k) ==
    LET i == NextRec(j)
    IN  /\ threads[j][k].pc = "select"
        /\ fs_lock_free
        /\ IF i = 0
           THEN /\ threads' = [threads EXCEPT ![j][k].pc = "finalize"]
                /\ UNCHANGED <<recips, send_hist>>
           ELSE /\ recips' = [recips EXCEPT ![i].status = "sending",
                                            ![i].attempts = @ + 1]
                /\ threads' = [threads EXCEPT ![j][k].pc = "send",
                                              ![j][k].rec_id = i,
                                              ![j][k].segs = recips[i].segments]
                /\ send_hist' = [send_hist EXCEPT ![i].picks = @ + 1]
        /\ UNCHANGED <<wallet, jobs, running_jobs, locked, est, resp, crashes,
                       topups, callbacks, launches, ledger_hist, est_rows, est_out,
                   seg_text, seg_out, ledger_sum, topup, loop>>

\* Where the thread stands when the provider has returned a message (success
\* = True, on to the fs_lock block that records it) or the loop has run out:
\* `if not success` marks the recipient failed, but success is already True
\* when an earlier call of this turn had returned and its record was not
\* written, and then the turn ends with nothing marked and nothing counted.
AfterRetryLoop(t, returned) ==
    IF returned THEN [t EXCEPT !.pc = "record_sent", !.success = TRUE]
    ELSE IF t.success
    THEN [t EXCEPT !.pc = "select", !.rec_id = 0, !.segs = 0, !.success = FALSE]
    ELSE [t EXCEPT !.pc = "mark_failed"]

\* The retry loop of one recipient, for attempt in range(MAX_IMMEDIATE_RETRIES
\* + 3): the provider raises `failures` times (tw_client.messages.create
\* raises, or tw_client is None), the worker sleeping after each, and then
\* either returns a message or the loop ends with success still False.  The
\* loop touches nothing but the thread's locals.
process_job_send(j, k, failures) ==
    LET t == threads[j][k]
        returned == failures < RetryBudget
    IN  /\ t.pc = "send"
        /\ threads' = [threads EXCEPT ![j][k] = AfterRetryLoop(t, returned)]
        /\ send_hist' = [send_hist EXCEPT
                           ![t.rec_id].ok = @ + (IF returned THEN 1 ELSE 0),
                           ![t.rec_id].exhausted = @ \/ (~returned /\ ~t.success)]
        /\ UNCHANGED <<wallet, jobs, recips, running_jobs, locked, est, resp, crashes,
                       topups, callbacks, launches, ledger_hist, est_rows, est_out,
                   seg_text, seg_out, ledger_sum, topup, loop>>

CountSent_double(t) ==
    [t EXCEPT !.sent_segments = @ + 2 * t.segs, !.pc = "select", !.rec_id = 0,
              !.segs = 0, !.success = FALSE]

\* sent_segments += segs; break; then the throttle sleep and the next turn
CountSent(t) ==
    [t EXCEPT !.sent_segments = @ + t.segs, !.pc = "select", !.rec_id = 0, !.segs = 0,
              !.success = FALSE]

CountFailed_as_sent(t) ==
    [t EXCEPT !.sent_segments = @ + t.segs, !.pc = "select", !.rec_id = 0, !.segs = 0,
              !.success = FALSE]

\* failed_segments += segs; then the throttle sleep and the next turn
CountFailed(t) ==
    [t EXCEPT !.failed_segments = @ + t.segs, !.pc = "select", !.rec_id = 0, !.segs = 0,
              !.success = FALSE]

\* with fs_lock: target['twilioSid'] = tw_sid; target['status'] = 'sent';
\* then sent_segments += segs; break; sleep; next turn of the drain loop
process_job_record_sent(j, k) ==
    LET t == threads[j][k]
    IN  /\ t.pc = "record_sent"
        /\ fs_lock_free
        /\ recips' = [recips EXCEPT ![t.rec_id].twilioSid = ProviderSid(t.rec_id),
                                    ![t.rec_id].status = "sent"]
        /\ threads' = [threads EXCEPT ![j][k] = CountSent(t)]
        /\ UNCHANGED <<wallet, jobs, running_jobs, locked, est, resp, crashes,
                       topups, callbacks, launches, ledger_hist, send_hist, est_rows, est_out,
                   seg_text, seg_out, ledger_sum, topup, loop>>

\* if not success: with fs_lock: target['status'] = 'failed';
\* failed_segments += segs; sleep; next turn of the drain loop
process_job_mark_failed(j, k) ==
    LET t == threads[j][k]
    IN  /\ t.pc = "mark_failed"
        /\ fs_lock_free
        /\ recips' = [recips EXCEPT ![t.rec_id].status = "failed"]
        /\ threads' = [threads EXCEPT ![j][k] = CountFailed(t)]
        /\ UNCHANGED <<wallet, jobs, running_jobs, locked, est, resp, crashes,
                       topups, callbacks, launches, ledger_hist, send_hist, est_rows, est_out,
                   seg_text, seg_out, ledger_sum, topup, loop>>

\* actual_cost_mills = sent_segments * PRICE_PER_SMS_MILLS
ActualCost(sent_segments) == sent_segments * PRICE_PER_SMS_MILLS

Refund_of_failed_only(reserved_mills, sent_segments) ==
    IF sent_segments = 0 THEN reserved_mills ELSE 0

\* refund_mills = max(0, reserved_mills - actual_cost_mills)
Refund(reserved_mills, sent_segments) == Max(0, reserved_mills - ActualCost(sent_segments))

\* finalize, up to the wallet write: fs_lock is taken and, if refund_mills > 0,
\* the refund is credited.
process_job_refund(j, k) ==
    LET t == threads[j][k]
        refund_mills == Refund(jobs[j].totalCost_mills, t.sent_segments)
    IN  /\ t.pc = "finalize"
        /\ fs_lock_free
        /\ locked' = TRUE
        /\ IF refund_mills > 0
           THEN /\ wallet' = wallet + refund_mills
                /\ ledger_hist' = [CountLedgerOp(ledger_hist) EXCEPT ![j].refunds = @ + 1]
                /\ ledger_sum' = [ledger_sum EXCEPT !.balance_mills = @ + refund_mills]
           ELSE UNCHANGED <<wallet, ledger_hist, ledger_sum>>
        /\ threads' = [threads EXCEPT ![j][k].pc = "complete"]
        /\ UNCHANGED <<jobs, recips, running_jobs, est, resp, crashes, topups,
                       callbacks, launches, send_hist, est_rows, est_out,
                       seg_text, seg_out, topup, loop>>

\* finalize, the job write: job['status'] = 'completed' and the totals;
\* fs_lock is released.
process_job_complete(j, k) ==
    LET t == threads[j][k]
    IN  /\ t.pc = "complete"
        /\ jobs' = [jobs EXCEPT ![j].status = "completed",
                                ![j].sent_segments = t.sent_segments,
                                ![j].failed_segments = t.failed_segments,
                                ![j].actual_cost_mills = ActualCost(t.sent_segments),
                                ![j].refund_mills = Refund(jobs[j].totalCost_mills, t.sent_segments)]
        /\ ledger_hist' = [ledger_hist EXCEPT ![j].completions = @ + 1]
        /\ locked' = FALSE
        /\ threads' = [threads EXCEPT ![j][k].pc = "exit"]
        /\ UNCHANGED <<wallet, recips, running_jobs, est, resp, crashes, topups,
                       callbacks, launches, send_hist, est_rows, est_out,
                   seg_text, seg_out, ledger_sum, topup, loop>>

\* finally: running_jobs.discard(job_id)
process_job_exit(j, k) ==
    /\ threads[j][k].pc = "exit"
    /\ running_jobs' = running_jobs \ {j}
    /\ threads' = [threads EXCEPT ![j][k] = NoThread]
    /\ UNCHANGED <<wallet, jobs, recips, locked, est, resp, crashes, topups,
                   callbacks, launches, ledger_hist, send_hist, est_rows, est_out,
                   seg_text, seg_out, ledger_sum, topup, loop>>

\* ----------------------------------------------------------- storage errors
\* read_json or write_json_atomic raises inside a fs_lock block of process_job
\* that no except clause covers (the selector's, the one that marks the
\* recipient failed, the finalization before or after the wallet write): the
\* with statement releases fs_lock and the exception leaves process_job
\* through `finally`.
process_job_storage_error(j, k) ==
    LET t == threads[j][k]
    IN  /\ \/ /\ t.pc \in {"select", "mark_failed", "finalize"}
               /\ fs_lock_free
               /\ UNCHANGED locked
            \/ /\ t.pc = "complete"
               /\ locked' = FALSE
        /\ threads' = [threads EXCEPT ![j][k].pc = "exit"]
        /\ UNCHANGED <<wallet, jobs, recips, running_jobs, est, resp, crashes, topups,
                       callbacks, launches, ledger_hist, send_hist, est_rows, est_out,
                       seg_text, seg_out, ledger_sum, topup, loop>>

\* The same inside the fs_lock block that records a sent message: the block
\* is in the try of the retry loop, `except Exception` catches the error and
\* the loop goes on to its next attempt with success already True.
process_job_record_sent_error(j, k) ==
    LET t == threads[j][k]
    IN  /\ t.pc = "record_sent"
        /\ fs_lock_free
        /\ send_hist[t.rec_id].ok <= MaxStorageErrors
        /\ threads' = [threads EXCEPT ![j][k].pc = "send"]
        /\ UNCHANGED <<wallet, jobs, recips, running_jobs, locked, est, resp, crashes,
                       topups, callbacks, launches, ledger_hist, send_hist, est_rows,
                       est_out, seg_text, seg_out, ledger_sum, topup, loop>>

\* ------------------------------------------------------- api_twilio_status
\* r.get('twilioSid') == sid, over the records rs the handler has read
MatchesSid(rs, i, sid) == rs[i].twilioSid = sid

MatchesPhone_any_status(rs, i, to) == rs[i].phone = to

\* r.get('phone') == to and r.get('status') in ('queued', 'sending', 'sent')
MatchesPhone(rs, i, to) ==
    rs[i].phone = to /\ rs[i].status \in {"queued", "sending", "sent"}

\* The recipient the event is applied to, 0 for None.
FindRecipient(rs, sid, to) ==
    LET by_sid == IF sid /= None
                  THEN FirstOf({ i \in DOMAIN rs : MatchesSid(rs, i, sid) })
                  ELSE 0
    IN  IF by_sid /= 0 THEN by_sid
        ELSE IF to /= "" THEN FirstOf({ i \in DOMAIN rs : MatchesPhone(rs, i, to) })
        ELSE 0

\* found['status'] after the event
MappedStatus(old, status) ==
    IF status = "delivered" THEN "delivered"
    ELSE IF status \in {"failed", "undelivered"} THEN "failed"
    ELSE IF status = "sent" THEN "sent"
    ELSE old

\* The recipient records the handler leaves behind, from the records rs it
\* read: the early return and the block under fs_lock.
ApplyStatusEvent(rs, sid, status, to) ==
    LET found == FindRecipient(rs, sid, to)
    IN  IF (sid = None /\ to = "") \/ found = 0
        THEN rs
        ELSE [rs EXCEPT ![found].twilioStatus = status,
                        ![found].status = MappedStatus(@, status)]

\* sid = None and to = "" stand for a form without the field.
api_twilio_status(sid, status, to) ==
    /\ fs_lock_free
    /\ callbacks < MaxCallbacks
    /\ callbacks' = callbacks + 1
    /\ recips' = ApplyStatusEvent(recips, sid, status, to)
    /\ resp' = [op |-> "twilio_status", code |-> 200]
    /\ UNCHANGED <<wallet, jobs, running_jobs, threads, locked, est, crashes,
                   topups, launches, ledger_hist, send_hist, est_rows, est_out,
                   seg_text, seg_out, ledger_sum, topup, loop>>

\* The message ids and addresses an event may carry: every one on record,
\* one that is not, or none.
CallbackSids == { recips[i].twilioSid : i \in RecipIds } \cup {UnknownSid, None}
CallbackPhones == { recips[i].phone : i \in RecipIds } \cup {UnknownPhone, ""}

\* ---------------------------------------------------------------- api_topup
\* The request up to wallet = read_json(WALLET_PATH): refused without the
\* admin token or with a zero amount, else fs_lock is taken and the wallet read.
api_topup(authorized, amount_mills) ==
    /\ topup.pc = "idle"
    /\ IF ~authorized
       THEN /\ resp' = [op |-> "topup", code |-> 401]
            /\ UNCHANGED <<topups, locked, topup>>
       ELSE IF amount_mills = 0
       THEN /\ resp' = [op |-> "topup", code |-> 400]
            /\ UNCHANGED <<topups, locked, topup>>
       ELSE /\ topups < MaxTopups
            /\ fs_lock_free
            /\ locked' = TRUE
            /\ topups' = topups + 1
            /\ topup' = [pc |-> "write", balance_mills |-> wallet,
                         amount_mills |-> amount_mills]
            /\ UNCHANGED resp
    /\ UNCHANGED <<wallet, jobs, recips, running_jobs, threads, est, crashes,
                   callbacks, launches, ledger_hist, send_hist, est_rows, est_out,
                   seg_text, seg_out, ledger_sum, loop>>

\* wallet['balance_mills'] = wallet.get('balance_mills', 0) + amount_mills;
\* write_json_atomic(WALLET_PATH, wallet); fs_lock is released and the
\* request answered.
api_topup_write ==
    /\ topup.pc = "write"
    /\ wallet' = topup.balance_mills + topup.amount_mills
    /\ ledger_sum' = [ledger_sum EXCEPT !.balance_mills = @ + topup.amount_mills]
    /\ ledger_hist' = CountLedgerOp(ledger_hist)
    /\ locked' = FALSE
    /\ topup' = NoTopup
    /\ resp' = [op |-> "topup", code |-> 200]
    /\ UNCHANGED <<jobs, recips, running_jobs, threads, est, crashes, topups,
                   callbacks, launches, send_hist, est_rows, est_out,
                   seg_text, seg_out, loop>>

\* ------------------------------------------- process exit and the next start
\* sorted({r['jobId'] for r in recips if r.get('status') in ('queued', 'sending')})
PendingStatus(status) == status \in {"queued", "sending"}

pending_job_ids == { recips[i].jobId : i \in { n \in RecipIds : PendingStatus(recips[n].status) } }

\* The process exits (threads, running_jobs and fs_lock are lost, the files
\* stay) and is started again: resume_pending_jobs_on_startup starts a worker
\* for every job with a recipient left queued or sending.
restart ==
    /\ crashes < MaxCrashes
    /\ crashes' = crashes + 1
    /\ running_jobs' = {}
    /\ locked' = FALSE
    /\ est' = NoEstimate
    /\ resp' = [op |-> "none", code |-> 0]
    /\ threads' = [j \in JobIds |-> [k \in Slots |->
                     IF k = 1 /\ j \in pending_job_ids THEN NewThread ELSE NoThread]]
    /\ topup' = NoTopup
    /\ UNCHANGED <<wallet, jobs, recips, topups, callbacks, launches, ledger_hist, send_hist,
                   est_rows, est_out, seg_text, seg_out, ledger_sum, loop>>

\* A direct call of start_background_worker_for for a job on record, from
\* outside this file's two callers.
start_background_worker_for(j, k) ==
    /\ launches < MaxExtraLaunches
    /\ j \in DOMAIN jobs
    /\ threads[j][k].pc = "none"
    /\ \A m \in 1..(k - 1) : threads[j][m].pc /= "none"
    /\ launches' = launches + 1
    /\ threads' = [threads EXCEPT ![j][k] = NewThread]
    /\ UNCHANGED <<wallet, jobs, recips, running_jobs, locked, est, resp, crashes,
                   topups, callbacks, ledger_hist, send_hist, est_rows, est_out,
                   seg_text, seg_out, ledger_sum, topup, loop>>

\* ------------------------------------------------------------ specifications
Worker(j, k) ==
    \/ process_job_check(j, k)
    \/ process_job_add(j, k)
    \/ process_job_select(j, k)
    \/ \E failures \in 0..RetryBudget : process_job_send(j, k, failures)
    \/ process_job_record_sent(j, k)
    \/ process_job_mark_failed(j, k)
    \/ process_job_refund(j, k)
    \/ process_job_complete(j, k)
    \/ process_job_exit(j, k)

Requests ==
    \/ \E priced \in PricedBatches, do_send \in BOOLEAN :
          api_estimate(priced, do_send)
    \/ api_estimate_jobs
    \/ api_estimate_recips
    \/ \E sid \in CallbackSids, status \in CallbackStatuses, to \in CallbackPhones :
          api_twilio_status(sid, status, to)
    \/ \E authorized \in BOOLEAN, amount_mills \in TopupAmounts \cup {0} :
          api_topup(authorized, amount_mills)
    \/ api_topup_write

Workers == \E j \in JobIds, k \in Slots : Worker(j, k)

\* One life of the process: requests and workers.
Next == Requests \/ Workers

Spec == Init /\ [][Next]_vars

\* The same, with every thread and every request inside fs_lock scheduled
\* again and again.
Fairness ==
    /\ \A j \in JobIds, k \in Slots : WF_vars(Worker(j, k))
    /\ WF_vars(api_estimate_jobs)
    /\ WF_vars(api_estimate_recips)
    /\ WF_vars(api_topup_write)

LiveSpec == Spec /\ Fairness

\* Process exits and restarts, with the requests that create jobs.
Accept ==
    \/ \E priced \in PricedBatches : api_estimate(priced, TRUE)
    \/ api_estimate_jobs
    \/ api_estimate_recips

CrashNext == Accept \/ Workers \/ restart

CrashSpec == Init /\ [][CrashNext]_vars

\* Workers started for a job from outside the two callers of this file.
LaunchNext ==
    \/ Accept
    \/ Workers
    \/ \E j \in JobIds, k \in Slots : start_background_worker_for(j, k)

LaunchSpec == Init /\ [][LaunchNext]_vars

\* Two jobs of one recipient each, to the same number or not, with top-ups
\* and delivery-status events.
PairNext ==
    \/ \E priced \in PairBatches : api_estimate_upto(MaxPairJobs, priced, TRUE)
    \/ api_estimate_jobs
    \/ api_estimate_recips
    \/ \E amount_mills \in TopupAmounts : api_topup(TRUE, amount_mills)
    \/ api_topup_write
    \/ \E sid \in CallbackSids, status \in CallbackStatuses, to \in CallbackPhones :
          api_twilio_status(sid, status, to)
    \/ \E j \in JobIds : Worker(j, 1)

PairSpec == Init /\ [][PairNext]_vars

PairLiveSpec == PairSpec /\ Fairness

\* One process life in which the store may fail under the worker.
FaultNext ==
    \/ Accept
    \/ \E j \in JobIds : Worker(j, 1)
    \/ \E j \in JobIds : process_job_storage_error(j, 1)
    \/ \E j \in JobIds : process_job_record_sent_error(j, 1)

FaultSpec == Init /\ [][FaultNext]_vars

\* The same, with delivery-status events arriving meanwhile.
RaceNext ==
    \/ LaunchNext
    \/ \E sid \in CallbackSids, status \in CallbackStatuses, to \in CallbackPhones :
          api_twilio_status(sid, status, to)

RaceSpec == Init /\ [][RaceNext]_vars

\* The estimator alone: api_estimate without send, on one batch; the answer
\* carries rows=parsed and rejected.
api_estimate_rows(rows, template) ==
    LET acc == ParseRows(rows, template)
    IN  /\ ~est_out.answered
        /\ est_out' = [answered |-> TRUE, rows |-> acc.parsed, rejected |-> acc.rejected]
        /\ UNCHANGED <<wallet, jobs, recips, running_jobs, threads, locked, est, resp,
                       crashes, topups, callbacks, launches, ledger_hist, send_hist,
                       est_rows, seg_text, seg_out, ledger_sum, topup, loop>>

EstInit ==
    /\ est_rows \in EstBatches
    /\ wallet = InitialBalance
    /\ jobs = <<>>
    /\ recips = <<>>
    /\ running_jobs = {}
    /\ threads = [j \in JobIds |-> [k \in Slots |-> NoThread]]
    /\ locked = FALSE
    /\ est = NoEstimate
    /\ resp = [op |-> "none", code |-> 0]
    /\ crashes = 0
    /\ topups = 0
    /\ callbacks = 0
    /\ launches = 0
    /\ ledger_hist = <<>>
    /\ send_hist = <<>>
    /\ est_out = NoAnswer
    /\ seg_text = <<>>
    /\ seg_out = NoSegments
    /\ ledger_sum = NoLedgerOps
    /\ topup = NoTopup
    /\ loop = NoLoop

EstNext == \E template \in Templates : api_estimate_rows(est_rows, template)

EstSpec == EstInit /\ [][EstNext]_vars

\* segments_for_text alone: one body, priced as it is and with one more
\* ASCII character.
segments_request ==
    /\ ~seg_out.answered
    /\ seg_out' = [answered |-> TRUE,
                   segments |-> segments_for_text(seg_text),
                   one_longer |-> segments_for_text(Append(seg_text, 97))]
    /\ UNCHANGED <<wallet, jobs, recips, running_jobs, threads, locked, est, resp,
                   crashes, topups, callbacks, launches, ledger_hist, send_hist,
                   est_rows, est_out, seg_text, ledger_sum, topup, loop>>

SegInit ==
    /\ seg_text \in SegTexts
    /\ wallet = InitialBalance
    /\ jobs = <<>>
    /\ recips = <<>>
    /\ running_jobs = {}
    /\ threads = [j \in JobIds |-> [k \in Slots |-> NoThread]]
    /\ locked = FALSE
    /\ est = NoEstimate
    /\ resp = [op |-> "none", code |-> 0]
    /\ crashes = 0
    /\ topups = 0
    /\ callbacks = 0
    /\ launches = 0
    /\ ledger_hist = <<>>
    /\ send_hist = <<>>
    /\ est_rows = <<>>
    /\ est_out = NoAnswer
    /\ seg_out = NoSegments
    /\ ledger_sum = NoLedgerOps
    /\ topup = NoTopup
    /\ loop = NoLoop

SegNext == segments_request

SegSpec == SegInit /\ [][SegNext]_vars

\* -------------------------------------------------- worker.py: worker_loop
\* The attempts a recipient may use up: the literal of `attempts < 4` and of
\* `attempts >= 4`.
AttemptLimit == 4

\* int(os.getenv('SEND_CONCURRENCY', '4')), with two smaller settings
Concurrencies == {1, 2, 4}

\* The address of the i-th recipient on file.
LoopPhone(i) == IF i % 2 = 1 THEN Phone1 ELSE Phone2

\* r.get('status') == 'queued' and r.get('attempts',0) < 4
LoopEligible(r) == r.status = "queued" /\ r.attempts < AttemptLimit

\* queued = [r for r in recips if ...]; batch = queued[:CONCURRENCY], as the
\* ids of the records in file order
LoopBatch(rs, concurrency) ==
    LET ids == [i \in DOMAIN rs |-> i]
        queued == SelectSeq(ids, LAMBDA i : LoopEligible(rs[i]))
    IN  SubSeq(queued, 1, IF Len(queued) < concurrency THEN Len(queued) ELSE concurrency)

StatusAfterError_always_queued(rr) == "queued"

\* 'failed' if rr.get('attempts',0) >= 4 else 'queued'
StatusAfterError(rr) == IF rr.attempts >= AttemptLimit THEN "failed" ELSE "queued"

\* The head of the while loop: recipients.json is read under fs_lock and the
\* batch taken; with nothing queued the loop sleeps and comes back here.
worker_loop_scan ==
    /\ loop.pc = "scan"
    /\ loop' = LET batch == LoopBatch(recips, loop.concurrency)
               IN  IF batch = <<>> THEN loop
                   ELSE [loop EXCEPT !.pc = "mark", !.batch = batch]
    /\ UNCHANGED <<wallet, jobs, recips, running_jobs, threads, locked, est, resp,
                   crashes, topups, callbacks, launches, ledger_hist, send_hist,
                   est_rows, est_out, seg_text, seg_out, ledger_sum, topup>>

\* for r in batch: the record is read again by id and written with
\* attempts + 1 and status 'sending'; after the last r the while loop turns.
worker_loop_mark ==
    /\ loop.pc = "mark"
    /\ IF loop.batch = <<>>
       THEN /\ loop' = [loop EXCEPT !.pc = "scan"]
            /\ UNCHANGED recips
       ELSE LET r == Head(loop.batch)
            IN  /\ recips' = [recips EXCEPT ![r].attempts = @ + 1,
                                            ![r].status = "sending"]
                /\ loop' = [loop EXCEPT !.pc = "send", !.r = r]
    /\ UNCHANGED <<wallet, jobs, running_jobs, threads, locked, est, resp,
                   crashes, topups, callbacks, launches, ledger_hist, send_hist,
                   est_rows, est_out, seg_text, seg_out, ledger_sum, topup>>

\* sid = send_message(rr): the provider returns a message or the call raises.
worker_loop_send(returned) ==
    /\ loop.pc = "send"
    /\ loop' = [loop EXCEPT !.pc = IF returned THEN "record_sent" ELSE "record_error",
                            !.calls[loop.r] = @ + 1]
    /\ UNCHANGED <<wallet, jobs, recips, running_jobs, threads, locked, est, resp,
                   crashes, topups, callbacks, launches, ledger_hist, send_hist,
                   est_rows, est_out, seg_text, seg_out, ledger_sum, topup>>

\* The fs_lock block after a returned call: twilioSid and status 'sent' are
\* written; then the sleep and the next r of the batch.
worker_loop_record_sent ==
    /\ loop.pc = "record_sent"
    /\ recips' = [recips EXCEPT ![loop.r].twilioSid = ProviderSid(loop.r),
                                ![loop.r].status = "sent"]
    /\ loop' = [loop EXCEPT !.pc = "mark", !.batch = Tail(@), !.r = 0]
    /\ UNCHANGED <<wallet, jobs, running_jobs, threads, locked, est, resp,
                   crashes, topups, callbacks, launches, ledger_hist, send_hist,
                   est_rows, est_out, seg_text, seg_out, ledger_sum, topup>>

\* read_json or write_json_atomic raises in that block, which is inside the
\* try: the except branch takes over as for a failed call.
worker_loop_record_sent_error ==
    /\ loop.pc = "record_sent"
    /\ loop.errors < MaxStorageErrors
    /\ loop' = [loop EXCEPT !.pc = "record_error", !.errors = @ + 1]
    /\ UNCHANGED <<wallet, jobs, recips, running_jobs, threads, locked, est, resp,
                   crashes, topups, callbacks, launches, ledger_hist, send_hist,
                   est_rows, est_out, seg_text, seg_out, ledger_sum, topup>>

\* except Exception: under fs_lock the record is read again and its status
\* written 'failed' or 'queued'; then the sleep and the next r of the batch.
worker_loop_record_error ==
    /\ loop.pc = "record_error"
    /\ recips' = [recips EXCEPT ![loop.r].status = StatusAfterError(recips[loop.r])]
    /\ loop' = [loop EXCEPT !.pc = "mark", !.batch = Tail(@), !.r = 0]
    /\ UNCHANGED <<wallet, jobs, running_jobs, threads, locked, est, resp,
                   crashes, topups, callbacks, launches, ledger_hist, send_hist,
                   est_rows, est_out, seg_text, seg_out, ledger_sum, topup>>

\* The worker process exits at any point and is started again: worker_loop
\* begins at its head with the file as it was left.
worker_loop_restart ==
    /\ crashes < MaxCrashes
    /\ crashes' = crashes + 1
    /\ loop' = [loop EXCEPT !.pc = "scan", !.batch = <<>>, !.r = 0]
    /\ UNCHANGED <<wallet, jobs, recips, running_jobs, threads, locked, est, resp,
                   topups, callbacks, launches, ledger_hist, send_hist,
                   est_rows, est_out, seg_text, seg_out, ledger_sum, topup>>

\* recipients.json as api_estimate wrote it (every recipient 'queued' with
\* attempts 0), and worker.py started with some SEND_CONCURRENCY.
LoopInit ==
    /\ \E n \in 1..MaxLoopRecips, c \in Concurrencies :
          /\ recips = [i \in 1..n |-> NewRecipient(i, [phone |-> LoopPhone(i), segments |-> 1])]
          /\ loop = [NoLoop EXCEPT !.concurrency = c, !.calls = [i \in 1..n |-> 0]]
    /\ wallet = InitialBalance
    /\ jobs = <<>>
    /\ running_jobs = {}
    /\ threads = [j \in JobIds |-> [k \in Slots |-> NoThread]]
    /\ locked = FALSE
    /\ est = NoEstimate
    /\ resp = [op |-> "none", code |-> 0]
    /\ crashes = 0
    /\ topups = 0
    /\ callbacks = 0
    /\ launches = 0
    /\ ledger_hist = <<>>
    /\ send_hist = <<>>
    /\ est_rows = <<>>
    /\ est_out = NoAnswer
    /\ seg_text = <<>>
    /\ seg_out = NoSegments
    /\ ledger_sum = NoLedgerOps
    /\ topup = NoTopup

\* worker_loop, with the status events its messages bring back to app.py.
LoopNext ==
    \/ worker_loop_scan
    \/ worker_loop_mark
    \/ \E returned \in BOOLEAN : worker_loop_send(returned)
    \/ worker_loop_record_sent
    \/ worker_loop_record_sent_error
    \/ worker_loop_record_error
    \/ worker_loop_restart
    \/ \E sid \in CallbackSids, status \in CallbackStatuses, to \in CallbackPhones :
          api_twilio_status(sid, status, to)

LoopSpec == LoopInit /\ [][LoopNext]_vars

\* ------------------------------------------------------------------ claims
RecipsOf(j) == { i \in RecipIds : recips[i].jobId = j }

Completed(j) == j \in DOMAIN jobs /\ jobs[j].status = "completed"

\* C1: a job completed with s sent segments, s * PRICE_PER_SMS_MILLS <=
\* reserved, records refund_mills = reserved - s * PRICE_PER_SMS_MILLS; and
\* when the only ledger write since its reservation is its own refund, the
\* balance is the balance before the reservation minus s * PRICE_PER_SMS_MILLS.
C1_RefundAndBalance ==
    \A j \in DOMAIN jobs :
        LET reserved == jobs[j].totalCost_mills
            spent == jobs[j].sent_segments * PRICE_PER_SMS_MILLS
            own_writes == IF reserved - spent > 0 THEN 1 ELSE 0
        IN  (Completed(j) /\ spent <= reserved) =>
                /\ jobs[j].refund_mills = reserved - spent
                /\ ledger_hist[j].ops = own_writes => wallet = ledger_hist[j].before - spent

\* a job completed with some segments sent and some refunded, no other ledger
\* write since its reservation
C1_Witness ==
    \E j \in DOMAIN jobs :
        /\ Completed(j)
        /\ jobs[j].sent_segments > 0
        /\ jobs[j].refund_mills > 0
        /\ ledger_hist[j].ops = 1

\* C2: the wallet balance is never negative, whatever reserves, refunds and
\* top-ups (of any non-zero amount) have run.
C2_BalanceNonNegative == wallet >= 0

\* C3: a send request whose total cost exceeds the balance is answered 402
\* and changes neither the wallet nor the jobs nor the recipients, holds no
\* lock and starts no worker.
C3_RefusedSendChangesNothing ==
    [][\A priced \in PricedBatches :
          (priced.total_cost_mills > wallet /\ api_estimate(priced, TRUE)) =>
              /\ resp'.code = 402
              /\ UNCHANGED <<wallet, jobs, recips, threads, running_jobs, locked, est>>]_vars

\* a send request was refused for lack of funds
C3_Witness == resp = [op |-> "estimate", code |-> 402] /\ wallet >= 0

\* C4: over all process lives, a job's refund is credited at most once and
\* its record is written 'completed' at most once.
C4_FinalizedAtMostOnce ==
    \A j \in DOMAIN ledger_hist :
        ledger_hist[j].refunds <= 1 /\ ledger_hist[j].completions <= 1

\* C5: after a restart, a job is finalized only once none of its recipients
\* is left in 'sending': the resumed worker takes a recipient found in
\* 'sending' to sent or failed first.
C5_ResumedSendingIsDrained ==
    \A j \in DOMAIN jobs :
        (crashes > 0 /\ Completed(j)) =>
            \A i \in RecipsOf(j) : recips[i].status /= "sending"

\* Every recipient id a run can hold: a job holds at most one recipient for
\* each Canadian number of PhoneRegion.
CanadianPhones == {Phone1, Phone2}
AllRecipIds == 1..(MaxJobs * Cardinality(CanadianPhones))

Exhausted(i) == i \in DOMAIN send_hist /\ send_hist[i].exhausted

JobCompletedOf(i) == i \in RecipIds /\ Completed(recips[i].jobId)

RECURSIVE SumSegments(_)
SumSegments(ids) ==
    IF ids = {} THEN 0
    ELSE LET i == CHOOSE x \in ids : TRUE
         IN  recips[i].segments + SumSegments(ids \ {i})

\* The thread of job j is leaving the fs_lock block that follows a retry loop
\* ended without success.
MarksFailed(j, k) ==
    threads[j][k].pc = "mark_failed" /\ threads'[j][k].pc /= "mark_failed"

\* C6: a recipient whose provider calls all failed is marked 'failed', its
\* segments go to the failed total and not to the sent total (of the worker
\* and, at completion, of the job), and its job still reaches 'completed'.
C6_ExhaustedRecipientFailsJobCompletes ==
    /\ [][\A j \in JobIds, k \in Slots :
            MarksFailed(j, k) =>
                LET i == threads[j][k].rec_id
                IN  /\ Exhausted(i)
                    /\ recips'[i].status = "failed"
                    /\ threads'[j][k].failed_segments =
                          threads[j][k].failed_segments + recips[i].segments
                    /\ threads'[j][k].sent_segments = threads[j][k].sent_segments
                    /\ threads'[j][k].pc = "select"]_vars
    /\ [](\A j \in DOMAIN jobs :
            Completed(j) =>
                /\ jobs[j].failed_segments =
                      SumSegments({ i \in RecipsOf(j) : send_hist[i].exhausted })
                /\ jobs[j].sent_segments =
                      SumSegments({ i \in RecipsOf(j) : send_hist[i].ok > 0 }))
    /\ \A i \in AllRecipIds : Exhausted(i) ~> JobCompletedOf(i)

\* a completed job with a recipient that exhausted its retries, after which
\* the worker went on to send to the next one
C6_Witness ==
    \E j \in DOMAIN jobs :
        /\ Completed(j)
        /\ jobs[j].failed_segments > 0
        /\ jobs[j].sent_segments > 0
        /\ \E a, b \in RecipsOf(j) :
              a < b /\ send_hist[a].exhausted /\ recips[a].status = "failed"
                    /\ send_hist[b].ok = 1

DrainPcs == {"select", "send", "record_sent", "mark_failed", "finalize", "complete"}

\* C7: at most one process_job thread of a job is past the membership test
\* (in the drain loop or in finalization) at any time.
C7_OneWorkerPerJob ==
    \A j \in JobIds : Cardinality({ k \in Slots : threads[j][k].pc \in DrainPcs }) <= 1

\* C8: when a job is marked 'completed', each of its recipients has been
\* moved queued -> sending by the drain loop exactly once.
C8_EveryRecipientAttemptedOnce ==
    \A j \in DOMAIN jobs :
        Completed(j) => \A i \in RecipsOf(j) : send_hist[i].picks = 1

\* The event names a message id on record, or an address of a recipient that
\* is queued, sending or sent.
EventMatches(sid, to) ==
    \E i \in RecipIds :
        \/ sid /= None /\ recips[i].twilioSid = sid
        \/ to /= "" /\ recips[i].phone = to /\ recips[i].status \in {"queued", "sending", "sent"}

\* C9: a delivery-status event that matches no recipient, by message id or by
\* address, changes no recipient, job or wallet record and is answered 200.
C9_UnmatchedEventChangesNothing ==
    [][\A sid \in CallbackSids, status \in CallbackStatuses, to \in CallbackPhones :
          (~EventMatches(sid, to) /\ api_twilio_status(sid, status, to)) =>
              /\ UNCHANGED <<recips, jobs, wallet>>
              /\ resp' = [op |-> "twilio_status", code |-> 200]]_vars

\* an event was answered while recipients were on record, one of them already
\* failed, and none of them carries a status set by an event
C9_Witness ==
    /\ resp = [op |-> "twilio_status", code |-> 200]
    /\ callbacks > 0
    /\ \E i \in RecipIds : recips[i].status = "failed"
    /\ \A i \in RecipIds : recips[i].twilioStatus = "none"

Canonical(r) == normalize_phone_and_check_canada(r.phone)[1]

\* The first row of the batch that resolves to address p.
FirstRowFor(p) ==
    est_rows[CHOOSE n \in DOMAIN est_rows :
                /\ Canonical(est_rows[n]) = p
                /\ \A m \in 1..(n - 1) : Canonical(est_rows[m]) /= p]

\* C10: the accepted list holds each canonical address once, its entry built
\* from the first row of the batch that resolves to the address; no row that
\* resolves to an address is in the rejected list, so a later row with the
\* same address is in neither list.
C10_FirstOccurrenceWins ==
    est_out.answered =>
        /\ \A a, b \in DOMAIN est_out.rows :
              a /= b => est_out.rows[a].phone /= est_out.rows[b].phone
        /\ { est_out.rows[a].phone : a \in DOMAIN est_out.rows } =
              { Canonical(est_rows[n]) : n \in DOMAIN est_rows } \ {""}
        /\ \A a \in DOMAIN est_out.rows :
              est_out.rows[a].original = FirstRowFor(est_out.rows[a].phone)
        /\ \A x \in DOMAIN est_out.rejected : Canonical(est_out.rejected[x].row) = ""

\* a batch of three rows, the first and the last two spellings of one number
\* with different messages, answered with one accepted entry for the number
C10_Witness ==
    /\ est_out.answered
    /\ Len(est_rows) = 3
    /\ est_rows[1] /= est_rows[3]
    /\ Canonical(est_rows[1]) = Phone1
    /\ Canonical(est_rows[3]) = Phone1
    /\ Canonical(est_rows[2]) = Phone2
    /\ Len(est_out.rows) = 2
    /\ est_out.rows[1].original = est_rows[1]

\* The smallest n with n * d >= l.
CeilDiv(l, d) == CHOOSE n \in 0..l : n * d >= l /\ (n - 1) * d < l

AllSevenBit(text) == \A i \in DOMAIN text : text[i] <= 127

\* C11: segments_for_text is 1 for a 7-bit body of at most 160 characters and
\* ceil(L/153) for a longer one, 1 for a body with a character above 127 of at
\* most 70 characters and ceil(L/67) for a longer one (160 -> 1, 161 -> 2,
\* 70 -> 1, 71 -> 2), and does not decrease when the body grows by one
\* character of the same class.
C11_SegmentsByLength ==
    seg_out.answered =>
        LET l == Len(seg_text)
        IN  /\ seg_out.segments =
                  IF AllSevenBit(seg_text)
                  THEN IF l <= 160 THEN 1 ELSE CeilDiv(l, 153)
                  ELSE IF l <= 70 THEN 1 ELSE CeilDiv(l, 67)
            /\ (AllSevenBit(seg_text) /\ l = 160) => seg_out.segments = 1
            /\ (AllSevenBit(seg_text) /\ l = 161) => seg_out.segments = 2
            /\ (~AllSevenBit(seg_text) /\ l = 70) => seg_out.segments = 1
            /\ (~AllSevenBit(seg_text) /\ l = 71) => seg_out.segments = 2
            /\ seg_out.one_longer >= seg_out.segments

\* a 7-bit body of 306 characters, two full segments, priced at 2 and at 3
\* when one character longer
C11_Witness ==
    /\ seg_out.answered
    /\ AllSevenBit(seg_text)
    /\ Len(seg_text) = 306
    /\ seg_out.segments = 2
    /\ seg_out.one_longer = 3

\* Thread k of job j takes a recipient in this step.
Picks(j, k) == threads[j][k].pc = "select" /\ threads'[j][k].pc = "send"

\* C12: the drain loop takes a recipient only when its status is 'queued'
\* and marks it 'sending' in the same step; no recipient is taken twice,
\* with two workers on one job and events arriving meanwhile.
C12_NeverPickedAgain ==
    /\ [][\A j \in JobIds, k \in Slots :
            Picks(j, k) =>
                LET i == threads'[j][k].rec_id
                IN  /\ recips[i].status = "queued"
                    /\ recips'[i].status = "sending"
                    /\ \A m \in Slots : threads[j][m].rec_id /= i]_vars
    /\ [](\A i \in DOMAIN send_hist : send_hist[i].picks <= 1)

\* two workers of one job, each holding a recipient of its own, after an
\* event was received
C12_Witness ==
    \E j \in DOMAIN jobs :
        /\ threads[j][1].pc = "send"
        /\ threads[j][2].pc = "send"
        /\ threads[j][1].rec_id /= threads[j][2].rec_id
        /\ callbacks > 0

\* queued -> sending -> {sent | failed}, sent -> {delivered | failed}
StatusEdges ==
    { <<"queued", "sending">>, <<"sending", "sent">>, <<"sending", "failed">>,
      <<"sent", "delivered">>, <<"sent", "failed">> }

\* C13: every change of a recipient's status, by the worker or by an event,
\* follows an edge of queued -> sending -> {sent | failed}, sent ->
\* {delivered | failed}.
C13_StatusFollowsStateMachine ==
    [][\A i \in RecipIds :
          recips'[i].status /= recips[i].status =>
              <<recips[i].status, recips'[i].status>> \in StatusEdges]_vars

RECURSIVE SumTotalCost(_)
SumTotalCost(js) ==
    IF js = {} THEN 0
    ELSE LET j == CHOOSE x \in js : TRUE
         IN  jobs[j].totalCost_mills + SumTotalCost(js \ {j})

\* C14: whenever no acceptance is between its writes (so in every state a
\* process exit leaves behind), the amounts debited for reservations are
\* those of the jobs on record and each job has all its recipients on record.
C14_AcceptanceAllOrNothing ==
    est.pc = "idle" =>
        /\ ledger_sum.reserved_mills = SumTotalCost(DOMAIN jobs)
        /\ \A j \in DOMAIN jobs : Cardinality(RecipsOf(j)) = jobs[j].totalRecipients

\* C15: every job on record is eventually 'completed', and a completed job
\* has its reservation split into recorded actual cost and recorded refund,
\* the refund credited to the wallet once; with other jobs, top-ups and
\* events interleaved, and every thread scheduled again and again.
C15_AcceptedJobCompletes ==
    /\ \A j \in JobIds : (j \in DOMAIN jobs) ~> Completed(j)
    /\ [](\A j \in DOMAIN jobs :
            Completed(j) =>
                /\ jobs[j].actual_cost_mills + jobs[j].refund_mills = jobs[j].totalCost_mills
                /\ ledger_hist[j].refunds = (IF jobs[j].refund_mills > 0 THEN 1 ELSE 0))

\* two jobs completed, one paid in full and one refunded in full, after a
\* top-up and an event
C15_Witness ==
    /\ Len(jobs) = 2
    /\ \A j \in DOMAIN jobs : Completed(j)
    /\ \E a, b \in DOMAIN jobs :
          /\ jobs[a].refund_mills = 0 /\ jobs[a].actual_cost_mills > 0
          /\ jobs[b].refund_mills > 0 /\ jobs[b].actual_cost_mills = 0
    /\ topups > 0
    /\ callbacks > 0

\* Thread k of job j holds recipient i between the selector and the block
\* that records the outcome.
Holds(j, k, i) ==
    threads[j][k].rec_id = i /\ threads[j][k].pc \in {"send", "record_sent", "mark_failed"}

\* C16: a storage error inside the worker does not end the thread, which
\* stays on the same recipient; and no recipient is 'sending' without a
\* worker holding it.
C16_StorageErrorIsRetried ==
    /\ [][\A j \in JobIds, k \in Slots :
            process_job_storage_error(j, k) =>
                /\ threads'[j][k].pc \notin {"exit", "none"}
                /\ threads'[j][k].rec_id = threads[j][k].rec_id]_vars
    /\ [](\A i \in RecipIds :
            recips[i].status = "sending" => \E k \in Slots : Holds(recips[i].jobId, k, i))

\* The provider calls of the turn that took recipient i are over.
CallsOver(i) == send_hist[i].ok > 0 \/ send_hist[i].exhausted

\* C17: when the drain loop takes a recipient, no recipient of the job stored
\* before it is still 'queued', and every one of them that was taken has had
\* its provider calls: recipients are attempted in the order they were stored.
C17_AttemptedInStoredOrder ==
    [][\A j \in JobIds, k \in Slots :
          Picks(j, k) =>
              \A a \in RecipsOf(j) :
                  a < threads'[j][k].rec_id =>
                      /\ recips[a].status /= "queued"
                      /\ send_hist[a].picks > 0 => CallsOver(a)]_vars

\* the second recipient of a job is taken after the first was sent to
C17_Witness ==
    \E j \in DOMAIN jobs, k \in Slots :
        \E a \in RecipsOf(j) :
            /\ threads[j][k].pc = "send"
            /\ a < threads[j][k].rec_id
            /\ recips[threads[j][k].rec_id].jobId = j
            /\ send_hist[a].picks = 1
            /\ send_hist[a].ok = 1

\* The amount debited for a reservation in this step.
ReservedNow == ledger_sum'.reserved_mills - ledger_sum.reserved_mills

\* C18: the balance is the initial balance minus the reservations made plus
\* the refunds and top-ups applied, whatever the interleaving of requests,
\* workers and top-ups (no update is lost); and a reservation is made only
\* of an amount the balance holds at that moment, which it debits in full.
C18_LedgerSerialized ==
    /\ [](wallet = ledger_sum.balance_mills)
    /\ [][ReservedNow /= 0 =>
              /\ ReservedNow <= wallet
              /\ wallet' = wallet - ReservedNow]_vars

\* after a corrective top-up, one request was accepted and a second one,
\* which the balance would have held without the first, was refused
C18_Witness ==
    /\ resp = [op |-> "estimate", code |-> 402]
    /\ topups = 1
    /\ Len(jobs) = 1
    /\ \A i \in RecipIds : recips[i].status /= "queued"
    /\ wallet < PRICE_PER_SMS_MILLS
    /\ wallet + jobs[1].totalCost_mills >= PRICE_PER_SMS_MILLS

\* The status fields of every recipient record (timestamps are not kept).
StatusFields(rs) ==
    [i \in DOMAIN rs |-> <<rs[i].status, rs[i].twilioStatus>>]

\* C19: applying a delivery-status event a second time leaves every
\* recipient's status and twilioStatus as the first application left them,
\* for every event by message id and/or address and every store state.
C19_StatusEventIdempotent ==
    \A sid \in CallbackSids, status \in CallbackStatuses, to \in CallbackPhones :
        LET once == ApplyStatusEvent(recips, sid, status, to)
        IN  StatusFields(ApplyStatusEvent(once, sid, status, to)) = StatusFields(once)

\* C20: a completed job records an actual cost and a refund that add up to
\* the amount reserved for it, with the refund between 0 and that amount,
\* whatever the interleaving of workers and status events.
C20_CostPlusRefundIsReservation ==
    \A j \in DOMAIN jobs :
        jobs[j].status = "completed" =>
            /\ jobs[j].actual_cost_mills + jobs[j].refund_mills = jobs[j].totalCost_mills
            /\ 0 <= jobs[j].refund_mills
            /\ jobs[j].refund_mills <= jobs[j].totalCost_mills

\* a job completed with part of its reservation refunded, after a second
\* worker was started for it and a status event was applied
C20_Witness ==
    /\ launches = 1
    /\ callbacks = 1
    /\ \E j \in DOMAIN jobs :
          /\ jobs[j].status = "completed"
          /\ jobs[j].actual_cost_mills > 0
          /\ jobs[j].refund_mills > 0

\* C21: a completed job records sent_segments and failed_segments that add
\* up to its totalSegments, whatever status events arrived while it ran.
C21_EverySegmentAccounted ==
    \A j \in DOMAIN jobs :
        jobs[j].status = "completed" =>
            jobs[j].sent_segments + jobs[j].failed_segments = jobs[j].totalSegments

\* The recipients of job j for which a provider call has returned a message,
\* in this life of the process or an earlier one.
ProviderAccepted(j) == { i \in RecipsOf(j) : send_hist[i].ok > 0 }

\* C22: the sent_segments recorded on a completed job is the sum of the
\* segments of its recipients for which a provider call succeeded at any
\* time, sends made before a process exit and resume included.
C22_SentSegmentsSurviveRestart ==
    \A j \in DOMAIN jobs :
        jobs[j].status = "completed" =>
            jobs[j].sent_segments = SumSegments(ProviderAccepted(j))

\* C23: in worker_loop a recipient whose send fails is put back to 'queued'
\* while its attempts are below 4 and is marked 'failed' once they reach 4;
\* no recipient gets more than 4 calls of send_message from worker_loop, none
\* with attempts >= 4 is left 'queued', and none with attempts >= 4 is taken.
C23_AtMostFourAttempts ==
    /\ [][worker_loop_record_error =>
              recips'[loop.r].status =
                  IF recips[loop.r].attempts < 4 THEN "queued" ELSE "failed"]_vars
    /\ [][worker_loop_mark /\ loop.batch /= <<>> =>
              /\ recips[Head(loop.batch)].attempts < 4
              /\ recips'[Head(loop.batch)].attempts <= 4]_vars
    /\ [](\A i \in RecipIds :
            /\ loop.calls[i] <= 4
            /\ recips[i].attempts >= 4 => recips[i].status /= "queued")

\* a recipient was marked 'failed' after its fourth failed call while another
\* has been put back to 'queued' with attempts left
C23_Witness ==
    /\ loop.pc = "mark"
    /\ \E i \in RecipIds :
          /\ recips[i].status = "failed"
          /\ recips[i].attempts = 4
          /\ loop.calls[i] = 4
    /\ \E i \in RecipIds :
          /\ recips[i].status = "queued"
          /\ recips[i].attempts \in 1..3
          /\ loop.calls[i] = recips[i].attempts

====
